---- MODULE Spec2Model ----
(***************************************************************************)
(* A model of neurokit2/complexity/fractal_dfa.py: one call of             *)
(* fractal_dfa() as a step machine (Spec), and its helpers as operators:   *)
(* _fractal_dfa_findscales, _sanitize_q, _fractal_dfa_getwindow,           *)
(* _fractal_dfa_fluctuation, _slopes and _singularity_spectrum.            *)
(*                                                                         *)
(* Exponents q are fixed-point numbers in hundredths (200 is q = 2.0,      *)
(* 10 is q = 0.1).  Sample values of the signal are not modelled: a        *)
(* segment is the sequence of the 0-based positions it takes from the      *)
(* working series, and a fluctuation value is "pos" or "zero".             *)
(* Arguments are bound by the step that first reads them.  The call runs    *)
(* with order = 1 and show = False: the plots take no part in the result.  *)
(* SpecWindow and SpecQ apply _fractal_dfa_getwindow and _sanitize_q alone *)
(* to wider inputs; SpecConcurrent interleaves the np.seterr regions of    *)
(* two calls; SpecSpectrum applies _singularity_spectrum alone to          *)
(* exponents and slopes in hundredths, its quotients kept as exact         *)
(* fractions.                                                              *)
(***************************************************************************)
EXTENDS Integers, Sequences, FiniteSets, TLC

(* ------------------------------ bounds -------------------------------- *)
\* series lengths 0..MaxN, and one long series of LongN samples, for which
\* the generated scales (between 10 and n/10) are valid window sizes
MaxN == 4
LongN == 20
\* explicit scale lists hold at most MaxScales window sizes
MaxScales == 2
\* integer scale counts are 0..MaxCount
MaxCount == 2
\* explicit q lists of a call hold at most MaxQLen exponents
MaxQLen == 2
\* _fractal_dfa_getwindow alone: series of 0..MaxSeries samples
MaxSeries == 24
\* _sanitize_q alone: q lists of at most MaxExponents exponents
MaxExponents == 3
\* concurrent calls: at most MaxRegions scales, and exponents, per call
MaxRegions == 2
\* _singularity_spectrum alone: at most SpectrumLen exponents, slopes of
\* 0, 0.5, ... up to MaxSlopeSteps halves
SpectrumLen == 4
MaxSlopeSteps == 3

(* ----------------------------- sequences ------------------------------ *)
Range(s) == {s[k] : k \in DOMAIN s}

SeqsUpTo(S, len) == UNION {[1..k -> S] : k \in 0..len}

SetMin(S) == CHOOSE x \in S : \A y \in S : x <= y

SetMax(S) == CHOOSE x \in S : \A y \in S : x >= y

\* the elements of a set of integers in ascending order
RECURSIVE SortedSeq(_)
SortedSeq(S) == IF S = {} THEN <<>> ELSE <<SetMin(S)>> \o SortedSeq(S \ {SetMin(S)})

(* -------------------------- the call's state --------------------------- *)
VARIABLES
  pc,            \* the statement of fractal_dfa the call is at
  policy,        \* numpy's floating-point error policy of the calling thread
  entryPolicy,   \* the policy in force when the call began
  signal,        \* the signal, then the working series: container, ndim, len, size
  n,             \* n = len(signal)
  scaleArg,      \* the scale argument
  cand,          \* the scales _fractal_dfa_findscales validates
  scale,         \* the scales it returned
  multifractal,  \* the multifractal argument
  qArg,          \* the q argument
  q,             \* the exponents _sanitize_q returned (a column)
  integrate,     \* the integrate argument
  overlap,       \* the overlap argument
  fluct,         \* the fluctuation matrix: rows, cols, rows filled, zero seen
  i,             \* the index of the scale loop
  window,        \* the window size of the last _fractal_dfa_getwindow call
  segments,      \* the segments it returned
  windowsDone,   \* the number of windows processed
  j,             \* the index of the loop of _slopes
  regression,    \* whether _slopes was invoked
  result,        \* the first value returned
  info,          \* the keys of the info dictionary
  outcome,       \* "running", "ok", or the error raised
  callers,       \* concurrent calls, each on a thread of its own (SpecConcurrent)
  slopes         \* the slopes handed to _singularity_spectrum (SpecSpectrum)

vars == <<pc, policy, entryPolicy, signal, n, scaleArg, cand, scale, multifractal,
          qArg, q, integrate, overlap, fluct, i, window, segments, windowsDone,
          j, regression, result, info, outcome, callers, slopes>>

(* ------------------------- _fractal_dfa_findscales --------------------- *)
NoScaleArg == [kind |-> "unset", k |-> 0, list |-> <<>>]

\* scale = "default" (or None), an integer count, or an explicit list
ScaleValues == 0..(MaxN + 1)

ScaleArgs ==
  {[kind |-> "default", k |-> 0, list |-> <<>>]}
  \cup {[kind |-> "count", k |-> c, list |-> <<>>] : c \in 0..MaxCount}
  \cup {[kind |-> "list", k |-> 0, list |-> l] : l \in SeqsUpTo(ScaleValues, MaxScales)}

\* misc.expspace(start, stop, num, base=2): num integers spaced on a logarithmic
\* scale from start to stop, both ends included.  The set of every sequence the
\* rounding may yield: monotone from start to stop.
ExpSpace(start, stop, num) ==
  LET lo == IF start <= stop THEN start ELSE stop
      hi == IF start <= stop THEN stop ELSE start
  IN  {s \in [1..num -> lo..hi] :
         /\ num >= 1 => s[1] = start
         /\ num >= 2 => s[num] = stop
         /\ \A a \in 1..num, b \in 1..num :
              a < b => IF start <= stop THEN s[a] <= s[b] ELSE s[a] >= s[b]}

\* np.unique: the distinct values, ascending
Unique(s) == SortedSeq(Range(s))

\* lines 363-373: the arrays that reach the sanity checks
ScaleCandidates(len, arg) ==
  LET count == IF arg.kind = "count" THEN arg.k ELSE len \div 10
  IN  IF arg.kind = "list"
      THEN {arg.list}
      ELSE {Unique(s) : s \in ExpSpace(10, len \div 10, count)}

\* lines 375-388: the sanity checks, in the order of the code
ValidateScalesOpenMax(len, c) ==
  IF Len(c) < 2 THEN "TooFewScales"
  ELSE IF SetMin(Range(c)) < 2 THEN "ScaleBelowTwo"
  ELSE IF SetMax(Range(c)) > len THEN "ScaleNotBelowLength"
  ELSE "none"

ValidateScalesNoCount(len, c) ==
  IF c # <<>> /\ SetMin(Range(c)) < 2 THEN "ScaleBelowTwo"
  ELSE IF c # <<>> /\ SetMax(Range(c)) >= len THEN "ScaleNotBelowLength"
  ELSE "none"

ValidateScales(len, c) ==
  IF Len(c) < 2 THEN "TooFewScales"
  ELSE IF SetMin(Range(c)) < 2 THEN "ScaleBelowTwo"
  ELSE IF SetMax(Range(c)) >= len THEN "ScaleNotBelowLength"
  ELSE "none"

ScaleErrors == {"TooFewScales", "ScaleBelowTwo", "ScaleNotBelowLength"}

\* _fractal_dfa_findscales(n, scale): every (candidate, error) it can end with
FindScales(len, arg) ==
  {[cand |-> c, err |-> ValidateScales(len, c)] : c \in ScaleCandidates(len, arg)}

(* ------------------------------ _sanitize_q ---------------------------- *)
\* a value np.asarray_chkfinite rejects (inf or nan)
NonFinite == 10 ^ 6

\* q = "default", a scalar, or an explicit list
NoQArg == [kind |-> "unset", list |-> <<>>]

DefaultQArg == [kind |-> "default", list |-> <<>>]

ScalarQ(v) == [kind |-> "scalar", list |-> <<v>>]

ListQ(l) == [kind |-> "list", list |-> l]

QArgsOver(V, len) ==
  {DefaultQArg} \cup {ScalarQ(v) : v \in V} \cup {ListQ(l) : l \in SeqsUpTo(V, len)}

\* line 326: the default exponents of the multifractal analysis
DefaultMultifractalQ == <<-500, -300, -100, 0, 100, 300, 500>>

\* lines 322-326: the default token becomes 2, or the multifractal list
EffectiveQ(arg, multi) ==
  IF arg.kind = "default"
  THEN IF multi THEN DefaultMultifractalQ ELSE <<200>>
  ELSE arg.list

\* line 332: the mask (q < -0.1) + (q > 0.1)
QMaskInclusive(v) == (v <= -10) \/ (v >= 10)

QMask(v) == (v < -10) \/ (v > 10)

\* line 332: boolean indexing keeps the masked elements, in their order
RECURSIVE Compress(_)
Compress(s) ==
  IF s = <<>> THEN <<>>
  ELSE (IF QMask(Head(s)) THEN <<Head(s)>> ELSE <<>>) \o Compress(Tail(s))

\* _sanitize_q(q, multifractal): the column of exponents, or the error raised
SanitizeQ(arg, multi) ==
  LET e == EffectiveQ(arg, multi)
  IN  IF NonFinite \in Range(e) \/ -NonFinite \in Range(e)
      THEN [err |-> "NonFiniteExponentError", q |-> <<>>]
      ELSE [err |-> "none", q |-> Compress(e)]

(* -------------------- numpy's floating-point error policy -------------- *)
DefaultPolicy == [divide |-> "warn", over |-> "warn", under |-> "ignore", invalid |-> "warn"]

StrictPolicy == [divide |-> "raise", over |-> "raise", under |-> "raise", invalid |-> "raise"]

InitialPolicies == {DefaultPolicy, StrictPolicy}

\* np.seterr(divide="ignore", invalid="ignore"): the policy it sets (it returns
\* the policy it replaces)
Relaxed(p) == [p EXCEPT !.divide = "ignore", !.invalid = "ignore"]

(* ------------------------- _fractal_dfa_getwindow ---------------------- *)
\* np.arange(cur, stop, step) for step > 0
RECURSIVE ARangeInclusive(_, _, _)
ARangeInclusive(cur, stop, step) ==
  IF cur > stop THEN <<>> ELSE <<cur>> \o ARangeInclusive(cur + step, stop, step)

RECURSIVE ARange(_, _, _)
ARange(cur, stop, step) ==
  IF cur >= stop THEN <<>> ELSE <<cur>> \o ARange(cur + step, stop, step)

\* signal[a : b] of a series of m samples: the positions taken
Slice(a, b, m) ==
  LET hi == IF b < m THEN b ELSE m
  IN  [k \in 1..(IF hi > a THEN hi - a ELSE 0) |-> a + k - 1]

\* line 397: the overlapping windows
OverlapWindows(w, len, m) ==
  IF w \div 2 = 0
  THEN [err |-> "ZeroDivisionError", segs |-> <<>>]
  ELSE LET starts == ARange(0, len - w, w \div 2)
       IN  [err |-> "none",
            segs |-> [k \in 1..Len(starts) |-> Slice(starts[k], starts[k] + w, m)]]

\* lines 399-400: the prefix of whole windows, reshaped to (shape[0] // w, w).
\* A list, and a Series (pandas 1.0 and later), has no reshape.
SplitWindows(w, len, wk) ==
  LET prefix == Slice(0, len - (len % w), wk.len)
      rows == wk.len \div w
  IN  IF wk.container # "ndarray"
      THEN [err |-> "AttributeError", segs |-> <<>>]
      ELSE IF rows * w # Len(prefix)
      THEN [err |-> "ReshapeError", segs |-> <<>>]
      ELSE [err |-> "none",
            segs |-> [r \in 1..rows |-> [c \in 1..w |-> prefix[(r - 1) * w + c]]]]

\* _fractal_dfa_getwindow(signal, n, window, overlap)
GetWindow(wk, len, w, ov) ==
  IF ov THEN OverlapWindows(w, len, wk.len) ELSE SplitWindows(w, len, wk)

(* ------------------------------ fractal_dfa ---------------------------- *)
Lengths == (0..MaxN) \cup {LongN}

\* the signals: a 1-D or 2-D array, a data frame, a list or a list of lists
\* (of two columns), a series
SignalOf(c, d, len) == [container |-> c, ndim |-> d, len |-> len, size |-> len * d]

Signals ==
  {SignalOf(c, 1, len) : c \in {"ndarray", "list", "Series"}, len \in Lengths}
  \cup {SignalOf(c, 2, len) : c \in {"ndarray", "DataFrame"}, len \in Lengths}
  \cup {SignalOf("list", 2, len) : len \in Lengths \ {0}}

NoSignal == SignalOf("unset", 1, 0)

\* the exponents a call is given: the default, a scalar (0, 2, inf), a list of
\* 2s and 3s
QCallArgs ==
  {DefaultQArg} \cup {ScalarQ(v) : v \in {0, 200, NonFinite}}
  \cup {ListQ(l) : l \in SeqsUpTo({200, 300}, MaxQLen)}

NoResult == [kind |-> "none", len |-> 0]

NoFluct == [rows |-> 0, cols |-> 0, filled |-> 0, zero |-> FALSE]

Init ==
  /\ pc = "entry"
  /\ policy = DefaultPolicy
  /\ entryPolicy = DefaultPolicy
  /\ signal = NoSignal
  /\ n = 0
  /\ scaleArg = NoScaleArg
  /\ cand = <<>>
  /\ scale = <<>>
  /\ multifractal = FALSE
  /\ qArg = NoQArg
  /\ q = <<>>
  /\ integrate = TRUE
  /\ overlap = TRUE
  /\ fluct = NoFluct
  /\ i = 0
  /\ window = 0
  /\ segments = <<>>
  /\ windowsDone = 0
  /\ j = 0
  /\ regression = FALSE
  /\ result = NoResult
  /\ info = {}
  /\ outcome = "running"
  /\ callers = <<>>
  /\ slopes = <<>>

\* raise err out of fractal_dfa
Raise(err) == pc' = "done" /\ outcome' = err

\* line 150: the sanity check on the signal's dimensions
IsMultidimensional(sig) == sig.container \in {"ndarray", "DataFrame"} /\ sig.ndim > 1

\* lines 150-155
Entry ==
  /\ pc = "entry"
  /\ \E sig \in Signals :
       /\ signal' = sig
       /\ IF IsMultidimensional(sig)
          THEN Raise("DimensionalityError") /\ n' = n
          ELSE pc' = "findscales" /\ n' = sig.len /\ outcome' = outcome
  /\ UNCHANGED <<slopes, callers, policy, entryPolicy, scaleArg, cand, scale, multifractal, qArg, q,
                 integrate, overlap, fluct, i, window, segments,
                 windowsDone, j, regression, result, info>>

\* line 156
SelectScales ==
  /\ pc = "findscales"
  /\ \E arg \in ScaleArgs : \E r \in FindScales(n, arg) :
       /\ scaleArg' = arg
       /\ cand' = r.cand
       /\ IF r.err # "none"
          THEN Raise(r.err) /\ scale' = scale
          ELSE pc' = "sanitize" /\ scale' = r.cand /\ outcome' = outcome
  /\ UNCHANGED <<slopes, callers, policy, entryPolicy, signal, n, multifractal, qArg, q, integrate,
                 overlap, fluct, i, window, segments, windowsDone, j,
                 regression, result, info>>

\* lines 159-162
SanitizeExponents ==
  /\ pc = "sanitize"
  /\ \E multi \in BOOLEAN, arg \in QCallArgs :
       LET r == SanitizeQ(arg, multi)
       IN  /\ multifractal' = multi
           /\ qArg' = arg
           /\ IF r.err # "none"
              THEN Raise(r.err) /\ q' = q /\ info' = info
              ELSE /\ pc' = "profile"
                   /\ q' = r.q
                   /\ info' = {"scale", "q"}
                   /\ outcome' = outcome
  /\ UNCHANGED <<slopes, callers, policy, entryPolicy, signal, n, scaleArg, cand, scale, integrate,
                 overlap, fluct, i, window, segments, windowsDone, j,
                 regression, result>>

\* line 167: signal is rebound to its profile.  np.cumsum flattens an array or a
\* list (of lists) to a 1-D array, and keeps a Series a Series.
Profile(sig, integ) ==
  IF integ /\ sig.container # "Series"
  THEN [container |-> "ndarray", ndim |-> 1, len |-> sig.size, size |-> sig.size]
  ELSE sig

\* lines 165-171
Preprocess ==
  /\ pc = "profile"
  /\ \E integ \in BOOLEAN, ov \in BOOLEAN :
       /\ integrate' = integ
       /\ overlap' = ov
       /\ signal' = Profile(signal, integ)
  /\ fluct' = [rows |-> Len(scale), cols |-> Len(q), filled |-> 0, zero |-> FALSE]
  /\ i' = 1
  /\ pc' = "loop"
  /\ UNCHANGED <<slopes, callers, policy, entryPolicy, n, scaleArg, cand, scale, multifractal, qArg, q,
                 window, segments, windowsDone, j, regression, result, info, outcome>>

\* _fractal_dfa_trends: np.polyfit wants one row of `window` samples per segment
TrendsError(wk, segs, w) ==
  IF wk.ndim > 1 THEN "TypeError"
  ELSE IF segs = <<>> THEN "TypeError"
  ELSE IF \E k \in DOMAIN segs : Len(segs[k]) # w THEN "ValueError"
  ELSE "none"

\* np.seterr(**old_setting): the policy it sets
Restored(old) == old

\* _fractal_dfa_fluctuation, lines 420-432: the policy it leaves.  Only the
\* multifractal branch relaxes the policy around its powers, and restores it.
FluctuationPolicy(p, multi) ==
  IF multi
  THEN LET old_setting == p
           during == Relaxed(p)
       IN  Restored(old_setting)
  ELSE p

\* lines 174-183: one pass of the loop over the scales
ScaleLoop ==
  /\ pc = "loop"
  /\ i <= Len(scale)
  /\ LET w == scale[i]
         gw == GetWindow(signal, n, w, overlap)
         te == TrendsError(signal, gw.segs, w)
     IN  /\ window' = w
         /\ segments' = gw.segs
         /\ IF gw.err # "none"
            THEN Raise(gw.err) /\ UNCHANGED <<fluct, i, windowsDone, policy>>
            ELSE IF te # "none"
            THEN Raise(te) /\ UNCHANGED <<fluct, i, windowsDone, policy>>
            ELSE /\ \E z \in BOOLEAN :
                      fluct' = [fluct EXCEPT !.filled = @ + 1, !.zero = @ \/ z]
                 /\ policy' = FluctuationPolicy(policy, multifractal)
                 /\ windowsDone' = windowsDone + 1
                 /\ i' = i + 1
                 /\ UNCHANGED <<pc, outcome>>
  /\ UNCHANGED <<slopes, callers, entryPolicy, signal, n, scaleArg, cand, scale, multifractal, qArg, q,
                 integrate, overlap, j, regression, result, info>>

\* lines 194-198 and 346-350: after the loop, the empty matrix returns NaN;
\* otherwise _slopes is entered
ScaleLoopExit ==
  /\ pc = "loop"
  /\ i > Len(scale)
  /\ IF fluct.rows = 0
     THEN /\ pc' = "done"
          /\ outcome' = "ok"
          /\ result' = [kind |-> "nan", len |-> 0]
          /\ UNCHANGED <<regression, j>>
     ELSE /\ regression' = TRUE
          /\ result' = result
          /\ IF fluct.cols # Len(q)
             THEN Raise("DimensionMismatchError") /\ j' = j
             ELSE pc' = "slopes" /\ j' = 1 /\ outcome' = outcome
  /\ UNCHANGED <<slopes, callers, policy, entryPolicy, signal, n, scaleArg, cand, scale, multifractal,
                 qArg, q, integrate, overlap, fluct, i, window, segments,
                 windowsDone, info>>

\* lines 352-356: one pass of the loop of _slopes.  np.polyfit of a column that
\* holds a zero (log2 gives -inf) raises LinAlgError or yields NaN, by the
\* LAPACK build; nothing restores the policy when it raises.
SlopeFit ==
  /\ pc = "slopes"
  /\ j <= Len(q)
  /\ LET old_setting == policy
     IN  \/ /\ policy' = Restored(old_setting)
            /\ j' = j + 1
            /\ UNCHANGED <<pc, outcome>>
         \/ /\ fluct.zero
            /\ policy' = Relaxed(policy)
            /\ Raise("LinAlgError")
            /\ j' = j
  /\ UNCHANGED <<slopes, callers, entryPolicy, signal, n, scaleArg, cand, scale, multifractal, qArg, q,
                 integrate, overlap, fluct, i, window, segments,
                 windowsDone, regression, result, info>>

\* line 282: np.gradient needs two points at least
GradientDefined(k) == k >= 2

\* lines 282 and 298: equal neighbours in q, or NaN slopes, can leave D all NaN,
\* and np.nanargmax raises on it
SpectrumMayRaise(qs, fl) ==
  fl.zero \/ \E a \in DOMAIN qs : a + 1 \in DOMAIN qs /\ qs[a] = qs[a + 1]

SpectrumKeys ==
  {"h", "Tau", "H", "D", "ExpRange", "ExpMean", "DimRange", "DimMean", "HMax",
   "HDelta", "HAR"}

\* lines 199-200: a vector of one slope is unwrapped
Unwrap(k) == IF k = 1 THEN [kind |-> "scalar", len |-> 1] ELSE [kind |-> "vector", len |-> k]

\* lines 199-230: the slopes are unwrapped and returned, or summarised
Finish ==
  /\ pc = "slopes"
  /\ j > Len(q)
  /\ \/ /\ ~multifractal
        /\ result' = Unwrap(Len(q))
        /\ info' = info \cup {"Fluctuation", "Alpha"}
        /\ pc' = "done"
        /\ outcome' = "ok"
     \/ /\ multifractal
        /\ GradientDefined(Len(q))
        /\ result' = [kind |-> "table", len |-> 1]
        /\ info' = info \cup {"Fluctuation", "Alpha"} \cup SpectrumKeys
        /\ pc' = "done"
        /\ outcome' = "ok"
     \/ /\ multifractal
        /\ ~GradientDefined(Len(q)) \/ SpectrumMayRaise(q, fluct)
        /\ result' = result
        /\ info' = info \cup {"Fluctuation", "Alpha"}
        /\ Raise("ValueError")
  /\ UNCHANGED <<slopes, callers, policy, entryPolicy, signal, n, scaleArg, cand, scale, multifractal,
                 qArg, q, integrate, overlap, fluct, i, window, segments,
                 windowsDone, j, regression>>

Next ==
  \/ Entry
  \/ SelectScales
  \/ SanitizeExponents
  \/ Preprocess
  \/ ScaleLoop
  \/ ScaleLoopExit
  \/ SlopeFit
  \/ Finish

Spec == Init /\ [][Next]_vars

(* ------------------------- claims on one call (Spec) ------------------- *)
\* _fractal_dfa_findscales has run
ScalesChecked == scaleArg.kind # "unset"

\* it raised one of its three errors
ScaleErrorRaised == outcome \in ScaleErrors

\* C1: an explicit scale list that holds a scale below 2 or a scale of n or more
\* makes _fractal_dfa_findscales, and so fractal_dfa, raise before any window is
\* processed; and whenever it returns, it returns at least 2 scales, each in
\* [2, n - 1].
C1_ScaleValidation ==
  ScalesChecked =>
    /\ (scaleArg.kind = "list" /\ \E k \in DOMAIN scaleArg.list :
                                     scaleArg.list[k] < 2 \/ scaleArg.list[k] >= n)
         => pc = "done" /\ ScaleErrorRaised /\ windowsDone = 0 /\ segments = <<>>
    /\ ~ScaleErrorRaised
         => Len(scale) >= 2 /\ \A k \in DOMAIN scale : 2 <= scale[k] /\ scale[k] <= n - 1

\* a list of two scales, none below 2 and one of n or more, was refused
C1_Witness ==
  /\ pc = "done"
  /\ scaleArg.kind = "list"
  /\ Len(scaleArg.list) = 2
  /\ \A k \in DOMAIN scaleArg.list : scaleArg.list[k] >= 2
  /\ \E k \in DOMAIN scaleArg.list : scaleArg.list[k] >= n
  /\ outcome = "ScaleNotBelowLength"
  /\ windowsDone = 0

\* C2: on every path the scales fractal_dfa analyses are distinct, and a
\* selection of fewer than 2 distinct scales (the list [5, 5]) is refused.
C2_DistinctScales ==
  ScalesChecked =>
    /\ Cardinality(Range(cand)) < 2 => ScaleErrorRaised
    /\ ~ScaleErrorRaised => Cardinality(Range(scale)) = Len(scale)

\* C3: a multi-dimensional signal, in whatever container, ends the call with the
\* dimensionality error, and with no scale error.
C3_DimensionalityFirst ==
  (pc = "done" /\ signal.ndim > 1) =>
    outcome = "DimensionalityError" /\ ~ScalesChecked /\ qArg = NoQArg /\ windowsDone = 0

\* the scales analysed are distinct
DistinctScales == Cardinality(Range(scale)) = Len(scale)

\* C5: with multifractal = False, whatever q is, a call on distinct scales that
\* returns has the single column q = 2 for exponents, and its first value is one
\* number (or NaN), not a vector.
C5_MonofractalScalar ==
  (pc = "done" /\ outcome = "ok" /\ ~multifractal /\ qArg # NoQArg /\ DistinctScales) =>
    q = <<200>> /\ result.kind \in {"scalar", "nan"}

\* C6: with multifractal = True and q the scalar 2 or the list [2], a call that
\* reached the regression, on distinct scales and fluctuations that are all
\* positive, completes without raising and returns.
C6_SingleExponentCompletes ==
  (/\ pc = "done"
   /\ multifractal
   /\ qArg \in {ScalarQ(200), ListQ(<<200>>)}
   /\ regression
   /\ DistinctScales
   /\ ~fluct.zero) => outcome = "ok" /\ result.kind # "none"

C9_PolicyRestored == (pc = "done" /\ DistinctScales) => policy = entryPolicy

(* ------------------ _fractal_dfa_getwindow alone (SpecWindow) ---------- *)
\* the variables _fractal_dfa_getwindow does not touch
notWindowVars ==
  <<policy, entryPolicy, scaleArg, cand, scale, multifractal, qArg, q, integrate, fluct,
    i, windowsDone, j, regression, result, info, callers, slopes>>

\* the lengths and window sizes: every pair up to MaxSeries, and n = 100, w = 20
WindowInputs ==
  {[len |-> a, w |-> b] : a \in 0..MaxSeries, b \in 1..MaxSeries}
  \cup {[len |-> 100, w |-> 20]}

InitWindow ==
  /\ pc = "window"
  /\ \E in \in WindowInputs :
       /\ n = in.len
       /\ window = in.w
       /\ signal = SignalOf("ndarray", 1, in.len)
  /\ overlap \in BOOLEAN
  /\ segments = <<>>
  /\ outcome = "running"
  /\ policy = DefaultPolicy
  /\ entryPolicy = DefaultPolicy
  /\ scaleArg = NoScaleArg
  /\ cand = <<>>
  /\ scale = <<>>
  /\ multifractal = FALSE
  /\ qArg = NoQArg
  /\ q = <<>>
  /\ integrate = TRUE
  /\ fluct = NoFluct
  /\ i = 0
  /\ windowsDone = 0
  /\ j = 0
  /\ regression = FALSE
  /\ result = NoResult
  /\ info = {}
  /\ callers = <<>>
  /\ slopes = <<>>

\* segments = _fractal_dfa_getwindow(signal, n, window, overlap)
CallGetWindow ==
  /\ pc = "window"
  /\ LET gw == GetWindow(signal, n, window, overlap)
     IN  /\ segments' = gw.segs
         /\ outcome' = IF gw.err = "none" THEN "ok" ELSE gw.err
  /\ pc' = "windowed"
  /\ UNCHANGED <<n, window, signal, overlap>>
  /\ UNCHANGED notWindowVars

NextWindow == CallGetWindow

SpecWindow == InitWindow /\ [][NextWindow]_vars

(* ------------------------ _sanitize_q alone (SpecQ) -------------------- *)
notQVars ==
  <<policy, entryPolicy, signal, n, scaleArg, cand, scale, integrate, overlap, fluct, i,
    window, segments, windowsDone, j, regression, result, info, callers, slopes>>

\* exponents far from 0, next to the limit 0.1, at it, inside it, and a
\* non-finite one
QValues == {-500, -11, -10, -5, 0, 5, 10, 11, 200, 500, NonFinite}

QExample == <<-500, -5, 0, 5, 500>>

QArgs == QArgsOver(QValues, MaxExponents) \cup {ListQ(QExample)}

InitQ ==
  /\ pc = "sanitize_q"
  /\ multifractal \in BOOLEAN
  /\ qArg \in QArgs
  /\ q = <<>>
  /\ outcome = "running"
  /\ policy = DefaultPolicy
  /\ entryPolicy = DefaultPolicy
  /\ signal = NoSignal
  /\ n = 0
  /\ scaleArg = NoScaleArg
  /\ cand = <<>>
  /\ scale = <<>>
  /\ integrate = TRUE
  /\ overlap = TRUE
  /\ fluct = NoFluct
  /\ i = 0
  /\ window = 0
  /\ segments = <<>>
  /\ windowsDone = 0
  /\ j = 0
  /\ regression = FALSE
  /\ result = NoResult
  /\ info = {}
  /\ callers = <<>>
  /\ slopes = <<>>

\* q = _sanitize_q(q, multifractal=multifractal)
CallSanitizeQ ==
  /\ pc = "sanitize_q"
  /\ LET r == SanitizeQ(qArg, multifractal)
     IN  /\ q' = r.q
         /\ outcome' = IF r.err = "none" THEN "ok" ELSE r.err
  /\ pc' = "sanitized"
  /\ UNCHANGED <<multifractal, qArg>>
  /\ UNCHANGED notQVars

NextQ == CallSanitizeQ

SpecQ == InitQ /\ [][NextQ]_vars

(* ---------------- claims on the helpers (SpecWindow, SpecQ) ------------ *)
CeilDiv(a, b) == (a + b - 1) \div b

\* _fractal_dfa_getwindow returned the overlapping windows of a valid scale
OverlapWindowed == pc = "windowed" /\ overlap /\ 2 <= window /\ window < n

\* C4 as claimed: for 2 <= w < n the overlapping windows are
\* floor((n - w) / (w // 2)) segments.
C4_OverlapCountFloor ==
  OverlapWindowed => Len(segments) = (n - window) \div (window \div 2)

\* C4, amended: for 2 <= w < n the overlapping windows are
\* ceil((n - w) / (w // 2)) segments of w samples, segment k starting at
\* (k - 1) * (w // 2); n = 100, w = 20 gives the 8 segments starting at 0, 10, ..., 70.
C4_OverlapCountCeil ==
  OverlapWindowed =>
    /\ outcome = "ok"
    /\ Len(segments) = CeilDiv(n - window, window \div 2)
    /\ \A k \in DOMAIN segments :
         /\ Len(segments[k]) = window
         /\ segments[k][1] = (k - 1) * (window \div 2)
    /\ (n = 100 /\ window = 20) =>
         [k \in DOMAIN segments |-> segments[k][1]] = <<0, 10, 20, 30, 40, 50, 60, 70>>

\* the stride does not divide n - w: one segment more than the floor
C4_Witness ==
  /\ OverlapWindowed
  /\ (n - window) % (window \div 2) # 0
  /\ Len(segments) = (n - window) \div (window \div 2) + 1

Abs(v) == IF v < 0 THEN -v ELSE v

\* the places of e whose exponent is farther than 0.1 from 0
KeptPlaces(e) == {k \in DOMAIN e : Abs(e[k]) > 10}

\* the k-th of them
KeptPlace(e, k) ==
  CHOOSE a \in KeptPlaces(e) : Cardinality({b \in KeptPlaces(e) : b < a}) = k - 1

Callers == {1, 2}

notCallerVars ==
  <<pc, policy, entryPolicy, signal, n, scaleArg, cand, scale, multifractal, qArg, q,
    integrate, overlap, fluct, i, window, segments, windowsDone, j, regression, result,
    info, outcome, slopes>>

\* a call about to run its first suppression region: the regions of
\* _fractal_dfa_fluctuation (one per scale, multifractal only), then those of
\* _slopes (one per exponent)
CallerStates ==
  {[pc |-> IF m THEN "fluct" ELSE "slopes", policy |-> p, entry |-> p, old |-> p,
    rowsLeft |-> IF m THEN r ELSE 0, colsLeft |-> c, zero |-> z] :
     m \in BOOLEAN, p \in InitialPolicies, r \in 2..MaxRegions, c \in 1..MaxRegions,
     z \in BOOLEAN}

InitConcurrent ==
  /\ callers \in [Callers -> CallerStates]
  /\ pc = "concurrent"
  /\ policy = DefaultPolicy
  /\ entryPolicy = DefaultPolicy
  /\ signal = NoSignal
  /\ n = 0
  /\ scaleArg = NoScaleArg
  /\ cand = <<>>
  /\ scale = <<>>
  /\ multifractal = FALSE
  /\ qArg = NoQArg
  /\ q = <<>>
  /\ integrate = TRUE
  /\ overlap = TRUE
  /\ fluct = NoFluct
  /\ i = 0
  /\ window = 0
  /\ segments = <<>>
  /\ windowsDone = 0
  /\ j = 0
  /\ regression = FALSE
  /\ result = NoResult
  /\ info = {}
  /\ outcome = "running"
  /\ slopes = <<>>

\* line 425: old_setting = np.seterr(divide="ignore", invalid="ignore")
FluctRelax(c) ==
  /\ callers[c].pc = "fluct"
  /\ callers' = [callers EXCEPT ![c].old = callers[c].policy,
                                ![c].policy = Relaxed(callers[c].policy),
                                ![c].pc = "fluct_power"]
  /\ UNCHANGED notCallerVars

\* line 426: the powers
FluctPower(c) ==
  /\ callers[c].pc = "fluct_power"
  /\ callers' = [callers EXCEPT ![c].pc = "fluct_restore"]
  /\ UNCHANGED notCallerVars

\* line 427: np.seterr(**old_setting), and the next scale or _slopes
FluctRestore(c) ==
  /\ callers[c].pc = "fluct_restore"
  /\ callers' = [callers EXCEPT ![c].policy = Restored(callers[c].old),
                                ![c].rowsLeft = @ - 1,
                                ![c].pc = IF callers[c].rowsLeft > 1 THEN "fluct"
                                          ELSE "slopes"]
  /\ UNCHANGED notCallerVars

\* line 354: old_setting = np.seterr(divide="ignore", invalid="ignore")
SlopeRelax(c) ==
  /\ callers[c].pc = "slopes"
  /\ callers' = [callers EXCEPT ![c].old = callers[c].policy,
                                ![c].policy = Relaxed(callers[c].policy),
                                ![c].pc = "slopes_fit"]
  /\ UNCHANGED notCallerVars

\* line 355: the fit returns
SlopeFitReturns(c) ==
  /\ callers[c].pc = "slopes_fit"
  /\ callers' = [callers EXCEPT ![c].pc = "slopes_restore"]
  /\ UNCHANGED notCallerVars

\* line 355: the fit of a column that holds a zero raises, out of fractal_dfa
SlopeFitRaises(c) ==
  /\ callers[c].pc = "slopes_fit"
  /\ callers[c].zero
  /\ callers' = [callers EXCEPT ![c].pc = "raised"]
  /\ UNCHANGED notCallerVars

\* line 356: np.seterr(**old_setting), and the next exponent or the return
SlopeRestore(c) ==
  /\ callers[c].pc = "slopes_restore"
  /\ callers' = [callers EXCEPT ![c].policy = Restored(callers[c].old),
                                ![c].colsLeft = @ - 1,
                                ![c].pc = IF callers[c].colsLeft > 1 THEN "slopes"
                                          ELSE "returned"]
  /\ UNCHANGED notCallerVars

NextConcurrent ==
  \E c \in Callers :
    \/ FluctRelax(c)
    \/ FluctPower(c)
    \/ FluctRestore(c)
    \/ SlopeRelax(c)
    \/ SlopeFitReturns(c)
    \/ SlopeFitRaises(c)
    \/ SlopeRestore(c)

SpecConcurrent == InitConcurrent /\ [][NextConcurrent]_vars

\* both calls have ended
BothEnded == \A c \in Callers : callers[c].pc \in {"returned", "raised"}

\* C10: when both concurrent calls have ended, under every interleaving of their
\* steps, the policy each caller's thread is left with is the one it had before.
C10_NoPolicyLeak ==
  BothEnded => \A c \in Callers : callers[c].policy = callers[c].entry

(* ------------------------- _singularity_spectrum ----------------------- *)
\* The exponents q and the slopes are in hundredths, Tau and D in
\* ten-thousandths; a quotient is kept exact, as num / den with den > 0.
RECURSIVE Gcd(_, _)
Gcd(a, b) == IF b = 0 THEN a ELSE Gcd(b, a % b)

\* a / b for b # 0, in lowest terms
Frac(a, b) ==
  LET g == Gcd(Abs(a), Abs(b))
  IN  IF b < 0 THEN [num |-> (-a) \div g, den |-> (-b) \div g]
               ELSE [num |-> a \div g, den |-> b \div g]

Whole(a) == Frac(a, 1)

FracSub(x, y) == Frac(x.num * y.den - y.num * x.den, x.den * y.den)

FracAdd(x, y) == Frac(x.num * y.den + y.num * x.den, x.den * y.den)

\* x / y for y # 0
FracDiv(x, y) == Frac(x.num * y.den, x.den * y.num)

FracScale(c, x) == Frac(c * x.num, x.den)

FracLess(x, y) == x.num * y.den < y.num * x.den

FracEq(x, y) == x.num * y.den = y.num * x.den

\* np.gradient(f) of two values or more, unit spacing: one-sided differences at
\* the two ends, central differences between them
Gradient(f) ==
  [k \in DOMAIN f |->
     IF k = 1 THEN Whole(f[2] - f[1])
     ELSE IF k = Len(f) THEN Whole(f[k] - f[k - 1])
     ELSE Frac(f[k + 1] - f[k - 1], 2)]

\* np.nanmax, np.nanmin of finite values
NanMax(f) == f[CHOOSE a \in DOMAIN f : \A b \in DOMAIN f : ~FracLess(f[a], f[b])]

NanMin(f) == f[CHOOSE a \in DOMAIN f : \A b \in DOMAIN f : ~FracLess(f[b], f[a])]

\* np.nanargmax of finite values: the first place of the largest (1-based)
NanArgMax(f) ==
  CHOOSE a \in DOMAIN f :
    /\ \A b \in DOMAIN f : ~FracLess(f[a], f[b])
    /\ \A b \in DOMAIN f : b < a => FracLess(f[b], f[a])

RECURSIVE FracSum(_)
FracSum(f) == IF f = <<>> THEN Whole(0) ELSE FracAdd(f[1], FracSum(Tail(f)))

\* np.nanmean of finite values
NanMean(f) == Frac(FracSum(f).num, FracSum(f).den * Len(f))

\* line 304: (min(H) - HMax) / HDelta; 0 / 0 is NaN
AsymmetricRatio(hmin, hmax0, hdelta) ==
  IF hdelta.num = 0
  THEN [nan |-> TRUE, num |-> 0, den |-> 1]
  ELSE LET r == FracDiv(FracSub(hmin, hmax0), hdelta)
       IN  [nan |-> FALSE, num |-> r.num, den |-> r.den]

\* _singularity_spectrum(q, slopes), lines 276-312, for q strictly increasing
\* (the gradient of q has no zero) and finite slopes
SingularitySpectrum(qs, h) ==
  IF Len(qs) < 2
  THEN [err |-> "ValueError", out |-> NoResult]
  ELSE LET Tau == [k \in DOMAIN qs |-> qs[k] * h[k] - 10000]
           gTau == Gradient(Tau)
           gq == Gradient(qs)
           H == [k \in DOMAIN qs |-> FracDiv(gTau[k], gq[k])]
           D == [k \in DOMAIN qs |-> FracSub(FracScale(qs[k], H[k]), Whole(Tau[k]))]
           HMax == H[NanArgMax(D)]
           HDelta == FracSub(NanMax(H), NanMin(H))
       IN  [err |-> "none",
            out |-> [h |-> h, Tau |-> Tau, H |-> H, D |-> D,
                     ExpRange |-> FracSub(NanMax(H), NanMin(H)),
                     ExpMean |-> NanMean(H),
                     DimRange |-> FracSub(NanMax(D), NanMin(D)),
                     DimMean |-> NanMean(D),
                     HMax |-> HMax,
                     HDelta |-> HDelta,
                     HAR |-> AsymmetricRatio(NanMin(H), HMax, HDelta)]]

(* ----------------- _singularity_spectrum alone (SpecSpectrum) ---------- *)
notSpectrumVars ==
  <<policy, entryPolicy, signal, n, scaleArg, cand, scale, multifractal, qArg, integrate,
    overlap, fluct, i, window, segments, windowsDone, j, regression, info, callers>>

\* the exponents a sanitised q is made of
SpectrumQ == {-300, -200, -100, 100, 200, 300}

\* strictly increasing q of 1..SpectrumLen exponents
SpectrumQs ==
  {qs \in SeqsUpTo(SpectrumQ, SpectrumLen) :
     /\ Len(qs) >= 1
     /\ \A k \in 1..(Len(qs) - 1) : qs[k] < qs[k + 1]}

SlopeValues == {50 * k : k \in 0..MaxSlopeSteps}

InitSpectrum ==
  /\ pc = "spectrum"
  /\ q \in SpectrumQs
  /\ slopes \in SeqsUpTo(SlopeValues, SpectrumLen)
  /\ Len(slopes) = Len(q)
  /\ result = NoResult
  /\ outcome = "running"
  /\ policy = DefaultPolicy
  /\ entryPolicy = DefaultPolicy
  /\ signal = NoSignal
  /\ n = 0
  /\ scaleArg = NoScaleArg
  /\ cand = <<>>
  /\ scale = <<>>
  /\ multifractal = TRUE
  /\ qArg = NoQArg
  /\ integrate = TRUE
  /\ overlap = TRUE
  /\ fluct = NoFluct
  /\ i = 0
  /\ window = 0
  /\ segments = <<>>
  /\ windowsDone = 0
  /\ j = 0
  /\ regression = TRUE
  /\ info = {}
  /\ callers = <<>>

\* line 208: info.update(_singularity_spectrum(q=q, slopes=slopes))
CallSingularitySpectrum ==
  /\ pc = "spectrum"
  /\ LET r == SingularitySpectrum(q, slopes)
     IN  /\ result' = r.out
         /\ outcome' = IF r.err = "none" THEN "ok" ELSE r.err
  /\ pc' = "spectrum_done"
  /\ UNCHANGED <<q, slopes>>
  /\ UNCHANGED notSpectrumVars

NextSpectrum == CallSingularitySpectrum

SpecSpectrum == InitSpectrum /\ [][NextSpectrum]_vars

(* -------------- claims on _singularity_spectrum (SpecSpectrum) --------- *)
\* _singularity_spectrum returned a spectrum of positive width whose HMax lies
\* midway between min(H) and max(H)
SymmetricSpectrum ==
  /\ pc = "spectrum_done"
  /\ outcome = "ok"
  /\ result.HDelta.num > 0
  /\ FracEq(FracScale(2, result.HMax), FracAdd(NanMin(result.H), NanMax(result.H)))

\* C11: for a symmetric singularity spectrum (HMax midway between min(H) and
\* max(H), HDelta > 0) the asymmetry ratio HAR that _singularity_spectrum
\* computes equals 0.5.
C11_SymmetricHARHalf ==
  SymmetricSpectrum =>
    /\ ~result.HAR.nan
    /\ FracEq(result.HAR, Frac(1, 2))

\* what the code computes for a symmetric spectrum: minus one half; and its
\* ratio is never above 0 for any spectrum
SymmetricHARMinusHalf ==
  /\ SymmetricSpectrum => (~result.HAR.nan /\ FracEq(result.HAR, Frac(-1, 2)))
  /\ (pc = "spectrum_done" /\ outcome = "ok") => result.HAR.num <= 0

(* --------------- claims on the windows (Spec, SpecWindow) -------------- *)
\* the positions a, a + 1, ..., a + w - 1
Run(a, w) == [c \in 1..w |-> a + c - 1]

\* the positions that appear in some segment
Covered(segs) == UNION {Range(segs[k]) : k \in DOMAIN segs}

\* the errors _fractal_dfa_getwindow can end with
WindowErrors == {"ZeroDivisionError", "AttributeError", "ReshapeError"}

\* fractal_dfa, given distinct scales, called _fractal_dfa_getwindow for the
\* scale `window` on a working series of one dimension and n samples
Windowed ==
  /\ pc \in {"loop", "slopes", "done"}
  /\ DistinctScales
  /\ window # 0
  /\ 2 <= window
  /\ window < n
  /\ signal.ndim = 1
  /\ signal.len = n

\* floor(n / w) segments, segment k the samples [k*w, (k+1)*w), the last
\* n mod w samples in no segment, no sample in two segments
SplitInWholeWindows ==
  /\ Len(segments) = n \div window
  /\ \A k \in DOMAIN segments : segments[k] = Run((k - 1) * window, window)
  /\ Covered(segments) = 0..(n - (n % window) - 1)
  /\ \A k, l \in DOMAIN segments : k # l => Range(segments[k]) \cap Range(segments[l]) = {}

\* C12: in non-overlapping mode, for 2 <= w < n, _fractal_dfa_getwindow returns
\* exactly floor(n / w) segments, segment k being the samples [k*w, (k+1)*w) of
\* the working series; the trailing n mod w samples are in no segment, no
\* sample is in two segments, and no error is raised when w does not divide n.
C12_SplitDropsRemainder ==
  (Windowed /\ ~overlap) =>
    /\ outcome \notin WindowErrors
    /\ SplitInWholeWindows

\* the same, of a working series that is an array: this much holds, in
\* fractal_dfa and of _fractal_dfa_getwindow alone
SplitOfArrays ==
  /\ (Windowed /\ ~overlap /\ signal.container = "ndarray") =>
       (outcome \notin WindowErrors /\ SplitInWholeWindows)
  /\ (pc = "windowed" /\ ~overlap /\ 2 <= window /\ window < n) =>
       (outcome = "ok" /\ SplitInWholeWindows)

\* an array whose length its window does not divide was split
SplitOfArraysCase ==
  /\ pc = "windowed"
  /\ ~overlap
  /\ 2 <= window
  /\ window < n
  /\ n % window # 0
  /\ Len(segments) >= 2

\* at least one segment, each a full window inside [0, n), and a stride of 1
\* or more
FullWindows ==
  /\ Len(segments) >= 1
  /\ window \div 2 >= 1
  /\ \A k \in DOMAIN segments :
       /\ Len(segments[k]) = window
       /\ segments[k] = Run(segments[k][1], window)
       /\ 0 <= segments[k][1]
       /\ segments[k][1] + window <= n

\* C13: for every scale w that passes validation (2 <= w < n), with and without
\* overlap, the windower yields at least one segment, the stride w // 2 is at
\* least 1, and every segment is a full window whose range [start, start + w)
\* lies inside [0, n): fractal_dfa never gets an empty batch.
C13_WindowsNeverEmpty ==
  Windowed =>
    /\ outcome \notin WindowErrors
    /\ FullWindows

\* the same, of a working series that is an array: this much holds, in
\* fractal_dfa and of _fractal_dfa_getwindow alone
FullWindowsOfArrays ==
  /\ (Windowed /\ signal.container = "ndarray") =>
       (outcome \notin WindowErrors /\ FullWindows)
  /\ (pc = "windowed" /\ 2 <= window /\ window < n) => (outcome = "ok" /\ FullWindows)

====
